---- MODULE Spec2Model ----
(***************************************************************************)
(* Model of PDF_image_extract.py: the main loop over PDF documents, the    *)
(* page and XObject loops of extract_images, the colour-space fixes, the   *)
(* four filter branches and the TIFF header built by                       *)
(* tiff_header_for_CCITT.                                                  *)
(*                                                                         *)
(* Python integers are unbounded and the header fields are 32 bits wide,   *)
(* so an integer that reaches struct.pack is written here as a pair        *)
(* <<hi, lo>> standing for hi * 65536 + lo, with lo in 0..65535 and hi any *)
(* integer (negative for a negative number).                               *)
(***************************************************************************)
EXTENDS Integers, Sequences, FiniteSets, TLC

VARIABLES pc, nDocs, d, nPages, i, nObjs, k, j, lookup, files, last, budget

vars == <<pc, nDocs, d, nPages, i, nObjs, k, j, lookup, files, last, budget>>

(***************************************************************************)
(* Bounds of the explored runs.                                            *)
(***************************************************************************)
MaxDocs == 2
MaxPages == 2
MaxObjs == 2
MaxImages == 2

(***************************************************************************)
(* Integers as <<hi, lo>> pairs.                                           *)
(***************************************************************************)
Byte == 2 ^ 8
Word == Byte * Byte

P(n) == <<n \div Word, n % Word>>

\* The pair is a small natural number, and its value.
IsSmall(v) == v[1] = 0
Small(v) == v[2]

(***************************************************************************)
(* struct.pack, little-endian ('<'): 'h' is a signed 16-bit field, 'l' a   *)
(* signed 32-bit field; a value outside the field's range raises           *)
(* struct.error.                                                           *)
(***************************************************************************)
pack_h(n) == <<n % Byte, (n \div Byte) % Byte>>

fits_l(v) == v[1] >= -32768 /\ v[1] <= 32767
pack_l(v) == <<v[2] % Byte, v[2] \div Byte, v[1] % Byte, (v[1] \div Byte) % Byte>>

\* struct.calcsize of '<' + '2s' + 'h' + 'l' + 'h' + 'hhll' * 8 + 'h'
calcsize == 2 + 2 + 4 + 2 + (2 + 2 + 4 + 4) * 8 + 2

\* One directory entry 'hhll': tag, type, count, value.
entry(tag, type, value) == pack_h(tag) \o pack_h(type) \o pack_l(P(1)) \o pack_l(value)

\* tiff_header_for_CCITT: the packed header, or struct.error when a value
\* does not fit its field.
tiff_header_mutant(width, height, img_size, CCITT_group) ==
    IF fits_l(width) /\ fits_l(height) /\ fits_l(P(img_size)) /\ fits_l(P(CCITT_group))
    THEN [exc |-> "none",
          bytes |-> <<73, 73>> \o pack_h(42) \o pack_l(P(8)) \o pack_h(8)
                    \o entry(256, 4, width)
                    \o entry(257, 4, height)
                    \o entry(258, 3, P(1))
                    \o entry(259, 3, P(CCITT_group))
                    \o entry(262, 3, P(0))
                    \o entry(273, 4, P(calcsize))
                    \o entry(278, 4, width)
                    \o entry(279, 4, P(img_size))
                    \o pack_h(0)]
    ELSE [exc |-> "struct.error", bytes |-> <<>>]

tiff_header_for_CCITT(width, height, img_size, CCITT_group) ==
    IF fits_l(width) /\ fits_l(height) /\ fits_l(P(img_size)) /\ fits_l(P(CCITT_group))
    THEN [exc |-> "none",
          bytes |-> <<73, 73>> \o pack_h(42) \o pack_l(P(8)) \o pack_h(8)
                    \o entry(256, 4, width)
                    \o entry(257, 4, height)
                    \o entry(258, 3, P(1))
                    \o entry(259, 3, P(CCITT_group))
                    \o entry(262, 3, P(0))
                    \o entry(273, 4, P(calcsize))
                    \o entry(278, 4, height)
                    \o entry(279, 4, P(img_size))
                    \o pack_h(0)]
    ELSE [exc |-> "struct.error", bytes |-> <<>>]

(***************************************************************************)
(* Colour-space values as the PDF layer hands them over: a name, or an     *)
(* array whose first element is its tag.  An /Indexed array is             *)
(* [/Indexed base hival lookup]; an /ICCBased array is [/ICCBased stream], *)
(* and the stream's dictionary may hold /Alternate.                        *)
(***************************************************************************)
Name(n) == [kind |-> "name", name |-> n]
IndexedArray(base, lookupBytes) ==
    [kind |-> "array", tag |-> "/Indexed", base |-> base, lookup |-> lookupBytes]
ICCBasedArray(hasAlternate, alternate) ==
    [kind |-> "array", tag |-> "/ICCBased", hasAlternate |-> hasAlternate,
     alternate |-> alternate]
OtherArray(tag) == [kind |-> "array", tag |-> tag]
Absent == [kind |-> "absent"]

\* img_modes: the mode of a colour-space name; "" stands for a missing key.
img_modes(name) ==
    CASE name \in {"/DeviceRGB", "/DefaultRGB"} -> "RGB"
      [] name \in {"/DeviceCMYK", "/DefaultCMYK"} -> "CMYK"
      [] name \in {"/DeviceGray", "/DefaultGray"} -> "L"
      [] name = "/Indexed" -> "P"
      [] OTHER -> ""

\* The local variable lookup of extract_images: unbound until an /Indexed
\* array has been unpacked.
Unbound == [bound |-> FALSE, bytes |-> <<>>]
Bound(b) == [bound |-> TRUE, bytes |-> b]

(***************************************************************************)
(* The colour-space fixes and the mode lookup of extract_images.  The      *)
(* result holds the exception raised ("none" when none), the final value   *)
(* of color_space, the mode, and the local variable lookup afterwards.     *)
(***************************************************************************)
IsArray(cs, tag) == cs.kind = "array" /\ cs.tag = tag

\* Line 99-100: an /Indexed array is unpacked, color_space becomes its tag.
IndexedFix(cs, lk) ==
    IF IsArray(cs, "/Indexed")
    THEN [cs |-> Name("/Indexed"), lookup |-> Bound(cs.lookup)]
    ELSE [cs |-> cs, lookup |-> lk]

\* Line 101-107: an /ICCBased array is replaced by its /Alternate.
ICCBasedFix(cs) ==
    IF IsArray(cs, "/ICCBased")
    THEN IF cs.hasAlternate
         THEN [exc |-> "none", cs |-> cs.alternate]
         ELSE [exc |-> "IOError", cs |-> cs]
    ELSE [exc |-> "none", cs |-> cs]

\* Line 110: mode = img_modes[color_space].  An array is unhashable
\* (TypeError); a name that is no key raises KeyError.
ModeLookup(cs) ==
    IF cs.kind = "array" THEN [exc |-> "TypeError", mode |-> ""]
    ELSE IF img_modes(cs.name) = "" THEN [exc |-> "KeyError", mode |-> ""]
    ELSE [exc |-> "none", mode |-> img_modes(cs.name)]

\* Lines 96-110.
ResolveColorSpace(cs0, lk) ==
    IF cs0.kind = "absent"
    THEN [exc |-> "KeyError", cs |-> cs0, mode |-> "", lookup |-> lk]
    ELSE LET a == IndexedFix(cs0, lk)
             b == ICCBasedFix(a.cs)
             m == ModeLookup(b.cs)
         IN  IF b.exc # "none"
             THEN [exc |-> b.exc, cs |-> b.cs, mode |-> "", lookup |-> a.lookup]
             ELSE [exc |-> m.exc, cs |-> b.cs, mode |-> m.mode, lookup |-> a.lookup]

(***************************************************************************)
(* PIL: Image.frombytes, putpalette, convert('RGB') and save as PNG.  A    *)
(* raster is its mode, its size and its samples in row-major order.        *)
(***************************************************************************)
BytesPerPixel(mode) ==
    CASE mode = "RGB" -> 3
      [] mode = "CMYK" -> 4
      [] OTHER -> 1

\* Image.frombytes(mode, size, data): ValueError unless the data holds
\* exactly width * height pixels of the mode.
frombytes(mode, width, height, data) ==
    IF /\ IsSmall(width) /\ IsSmall(height)
       /\ Small(width) > 0 /\ Small(height) > 0
       /\ Len(data) = Small(width) * Small(height) * BytesPerPixel(mode)
    THEN [exc |-> "none", mode |-> mode, w |-> Small(width), h |-> Small(height),
          px |-> data]
    ELSE [exc |-> "ValueError", mode |-> mode, w |-> 0, h |-> 0, px |-> <<>>]

\* One palette entry: the RGB triple at an index, zero where the palette
\* data is shorter.
PaletteByte(palette, n) == IF n <= Len(palette) THEN palette[n] ELSE 0
PaletteEntry(palette, index) ==
    <<PaletteByte(palette, 3 * index + 1), PaletteByte(palette, 3 * index + 2),
      PaletteByte(palette, 3 * index + 3)>>

RECURSIVE ApplyPalette(_, _)
ApplyPalette(palette, px) ==
    IF px = <<>> THEN <<>>
    ELSE PaletteEntry(palette, Head(px)) \o ApplyPalette(palette, Tail(px))

\* img.putpalette(palette); img.convert('RGB')
putpalette_convert(img, palette) ==
    [exc |-> "none", mode |-> "RGB", w |-> img.w, h |-> img.h,
     px |-> ApplyPalette(palette, img.px)]

\* The PNG colour type of a mode; PNG has none for CMYK.
PngColorType(mode) ==
    CASE mode = "L" -> 0
      [] mode = "RGB" -> 2
      [] mode = "P" -> 3
      [] OTHER -> -1

\* The PNG file of a raster: the signature, then width, height, bit depth
\* and colour type of the IHDR chunk, then the samples (chunk framing, CRCs
\* and the deflate stream are left out).
PngEncode(img) ==
    <<137, 80, 78, 71>> \o <<img.w, img.h, 8, PngColorType(img.mode)>> \o img.px

\* img.save(img_name): the file is opened for writing, then the encoder
\* runs; the PNG encoder raises OSError for a mode it cannot write.  opened
\* tells that the file was opened before the exception.
save(img) ==
    IF PngColorType(img.mode) >= 0
    THEN [exc |-> "none", opened |-> TRUE, bytes |-> PngEncode(img)]
    ELSE [exc |-> "OSError", opened |-> TRUE, bytes |-> <<>>]

(***************************************************************************)
(* One XObject of a page.  filter, parms: "" stands for a missing key.     *)
(* data is what the branch reads: getData() for /FlateDecode, _data for    *)
(* the others.                                                             *)
(***************************************************************************)
XObject(subtype, filter, width, height, cs, parms, K, data) ==
    [subtype |-> subtype, filter |-> filter, width |-> width, height |-> height,
     cs |-> cs, parms |-> parms, K |-> K, data |-> data]

\* Lines 147-150.
CCITT_group_mutant(K) == IF K < 0 THEN 4 ELSE 3
CCITT_group(K) == IF K = -1 THEN 4 ELSE 3

\* Lines 125-127 and 131-133: what img.write(data) puts in the file.
write_data_mutant(data) == IF data = <<>> THEN data ELSE Tail(data)
write_data(data) == data

\* Lines 158-160: img_file.write(tiff_header + data).
write_tiff(tiff_header, data) == tiff_header \o data

NoFile(e) == [exc |-> e, opened |-> FALSE, bytes |-> <<>>]

\* Lines 116-122.
FlateBranch(o, r) ==
    LET img == frombytes(r.mode, o.width, o.height, o.data)
    IN  IF img.exc # "none" THEN NoFile(img.exc)
        ELSE IF r.cs.name = "/Indexed"
             THEN IF ~r.lookup.bound THEN NoFile("UnboundLocalError")
                  ELSE save(putpalette_convert(img, r.lookup.bytes))
             ELSE save(img)

\* Lines 146-160.
CCITTBranch(o) ==
    IF o.parms # "K" THEN NoFile("KeyError")
    ELSE LET h == tiff_header_for_CCITT(o.width, o.height, Len(o.data), CCITT_group(o.K))
         IN  IF h.exc # "none" THEN NoFile(h.exc)
             ELSE [exc |-> "none", opened |-> TRUE, bytes |-> write_tiff(h.bytes, o.data)]

\* Lines 116-163: the dispatch on /Filter.
FilterBranch(o, r) ==
    CASE o.filter = "" -> NoFile("KeyError")
      [] o.filter = "/FlateDecode" -> FlateBranch(o, r)
      [] o.filter \in {"/DCTDecode", "/JPXDecode"} ->
            [exc |-> "none", opened |-> TRUE, bytes |-> write_data(o.data)]
      [] o.filter = "/CCITTFaxDecode" -> CCITTBranch(o)
      [] OTHER -> NoFile("none")

\* Lines 95-163 for one image XObject, given the value of the local
\* variable lookup before it: the exception raised ("none" when none),
\* the mode looked up, whether the image's file was opened, the bytes
\* written to it, and lookup afterwards.
Decode(o, lk) ==
    LET r == ResolveColorSpace(o.cs, lk)
        f == FilterBranch(o, r)
    IN  IF r.exc # "none"
        THEN [exc |-> r.exc, mode |-> r.mode, opened |-> FALSE, bytes |-> <<>>,
              lookup |-> r.lookup]
        ELSE [exc |-> f.exc, mode |-> r.mode, opened |-> f.opened, bytes |-> f.bytes,
              lookup |-> r.lookup]

\* The files on disk after an image: a file opened and written stays; a
\* file opened by a save that then failed stays behind empty, or is removed
\* again by the library versions that clean up after a failed save.
FilesAfter(fs, name, r) ==
    IF ~r.opened THEN {fs}
    ELSE IF r.exc = "none" THEN {fs \cup {name}}
    ELSE {fs \cup {name}, fs}

\* Lines 112-114: the name of the image's file: the PDF, the page number,
\* the image number on the page and the extension.
img_name(doc, page, n) == <<doc, page + 1, n, ".png">>

(***************************************************************************)
(* The inputs: what the PDF layer can hand to extract_images.              *)
(***************************************************************************)
Min(a, b) == IF a < b THEN a ELSE b

Payloads == { <<>>, <<255>>, <<255, 216, 255, 217>> }

Palette1 == <<255, 0, 0, 0, 0, 255>>
Palette2 == <<0, 255, 0, 9, 9, 9>>

RGB == Name("/DeviceRGB")
Gray == Name("/DeviceGray")
Indexed1 == IndexedArray(RGB, Palette1)

ColorSpaces ==
    { RGB, Gray, Name("/DeviceCMYK"), Name("/DefaultRGB"), Name("/Indexed"),
      Name("/Pattern"), Absent, OtherArray("/Separation"),
      Indexed1, IndexedArray(RGB, Palette2),
      IndexedArray(ICCBasedArray(TRUE, Gray), Palette1),
      IndexedArray(Indexed1, Palette1),
      IndexedArray(Name("/Pattern"), Palette1),
      ICCBasedArray(FALSE, Absent), ICCBasedArray(TRUE, RGB),
      ICCBasedArray(TRUE, Gray), ICCBasedArray(TRUE, Name("/Indexed")),
      ICCBasedArray(TRUE, Name("/Pattern")),
      ICCBasedArray(TRUE, Indexed1),
      ICCBasedArray(TRUE, ICCBasedArray(TRUE, RGB)) }

\* Width and height values: 0, 1, 2^31 - 1, 2^31, 2^32 - 1, 2^32 and -1.
Dims ==
    { P(0), P(1), <<32767, 65535>>, <<32768, 0>>,
      <<65535, 65535>>, <<65536, 0>>, <<-1, 65535>> }

\* Sizes and sample data of /FlateDecode images: one pixel of three
\* samples, one pixel of four samples, four pixels of one sample.
Raster3 == <<P(1), P(1), <<7, 8, 9>>>>
Raster4 == <<P(1), P(1), <<1, 2, 3, 4>>>>
Raster1 == <<P(2), P(2), <<0, 1, 1, 0>>>>

FlateInputs ==
    { <<Raster1, cs>> : cs \in ColorSpaces }
    \cup { <<Raster3, cs>> : cs \in {RGB, Name("/DefaultRGB"), ICCBasedArray(TRUE, RGB), Gray} }
    \cup { <<Raster4, cs>> : cs \in {Name("/DeviceCMYK"), RGB} }

NonImages == { XObject("/Form", "", P(0), P(0), Absent, "", 0, <<>>) }

Images ==
    { XObject("/Image", f, P(1), P(1), RGB, "", 0, data) :
        f \in {"/DCTDecode", "/JPXDecode", "/LZWDecode", ""}, data \in Payloads }
    \cup
    { XObject("/Image", "/DCTDecode", P(1), P(1), cs, "", 0, <<255>>) : cs \in ColorSpaces }
    \cup
    { XObject("/Image", f, P(1), P(1), cs, "K", -1, <<255>>) :
        f \in {"/LZWDecode", "/CCITTFaxDecode"},
        cs \in {ICCBasedArray(FALSE, Absent), Name("/Pattern"), Absent} }
    \cup
    { XObject("/Image", "/FlateDecode", rc[1][1], rc[1][2], rc[2], "", 0, rc[1][3]) :
        rc \in FlateInputs }
    \cup
    { XObject("/Image", "/CCITTFaxDecode", P(1700), P(2200), Gray, pk[1], pk[2], <<255>>) :
        pk \in {<<"", 0>>, <<"noK", 0>>, <<"K", -2>>, <<"K", -1>>, <<"K", 0>>, <<"K", 1>>} }
    \cup
    { XObject("/Image", "/CCITTFaxDecode", w, P(2200), Gray, "K", -1, <<255>>) : w \in Dims }
    \cup
    { XObject("/Image", "/CCITTFaxDecode", P(1700), h, Gray, "K", 0, <<255>>) : h \in Dims }
    \cup
    { XObject("/Image", "/CCITTFaxDecode", P(1700), P(2200), Gray, "K", -1, data) :
        data \in Payloads }

(***************************************************************************)
(* The state: the position of the main loop (d of nDocs PDFs), of the page *)
(* loop (i of nPages) and of the XObject loop (k of nObjs, j the image     *)
(* number), the local variable lookup, the names of the files on disk, and *)
(* the image handled last with what became of it: the exception raised,    *)
(* its mode, the bytes of its file, and lookup before it.  A file is written once,   *)
(* under a name no other image has, so its bytes are those of the image    *)
(* that wrote it.  budget bounds the XObjects of a run.                    *)
(***************************************************************************)
NoImage ==
    [seen |-> FALSE, obj |-> CHOOSE o \in NonImages : TRUE, name |-> img_name(0, 0, 0),
     exc |-> "none", mode |-> "", bytes |-> <<>>, before |-> Unbound]

Init ==
    /\ pc = "main"
    /\ nDocs \in 0..MaxDocs
    /\ d = 0
    /\ nPages = 0
    /\ i = 0
    /\ nObjs = 0
    /\ k = 0
    /\ j = 0
    /\ lookup = Unbound
    /\ files = {}
    /\ last = NoImage
    /\ budget = MaxImages

\* Lines 184-189 and 68-79: extract_images is called for the next PDF.
CallExtractImages ==
    /\ pc = "main"
    /\ d < nDocs
    /\ \E n \in 0..MaxPages : nPages' = n
    /\ i' = 0
    /\ lookup' = Unbound
    /\ pc' = "pages"
    /\ UNCHANGED <<nDocs, d, nObjs, k, j, files, last, budget>>

\* Lines 188-189: no PDF is left.
MainDone ==
    /\ pc = "main"
    /\ d = nDocs
    /\ pc' = "done"
    /\ UNCHANGED <<nDocs, d, nPages, i, nObjs, k, j, lookup, files, last, budget>>

\* Lines 83-87: the page has no /XObject resources.
PageWithoutXObject ==
    /\ pc = "pages"
    /\ i < nPages
    /\ i' = i + 1
    /\ UNCHANGED <<pc, nDocs, d, nPages, nObjs, k, j, lookup, files, last, budget>>

\* Lines 85-91: the page has /XObject resources.
PageWithXObject ==
    /\ pc = "pages"
    /\ i < nPages
    /\ \E n \in 0..Min(MaxObjs, budget) : nObjs' = n /\ budget' = budget - n
    /\ k' = 0
    /\ j' = 1
    /\ pc' = "objs"
    /\ UNCHANGED <<nDocs, d, nPages, i, lookup, files, last>>

\* Line 79: the page loop ends and extract_images returns.
Return ==
    /\ pc = "pages"
    /\ i = nPages
    /\ d' = d + 1
    /\ pc' = "main"
    /\ nPages' = 0
    /\ i' = 0
    /\ lookup' = Unbound
    /\ UNCHANGED <<nDocs, nObjs, k, j, files, last, budget>>

\* Line 93: an XObject that is no image is passed over.
NonImageObject ==
    /\ pc = "objs"
    /\ k < nObjs
    /\ \E o \in NonImages : o.subtype # "/Image"
    /\ k' = k + 1
    /\ UNCHANGED <<pc, nDocs, d, nPages, i, nObjs, j, lookup, files, last, budget>>

\* Lines 93-165: one image XObject.  An exception leaves extract_images
\* and the main loop, which catch none, and ends the process.
ImageObject ==
    /\ pc = "objs"
    /\ k < nObjs
    /\ \E o \in Images :
         LET r == Decode(o, lookup)
             name == img_name(d, i, j)
         IN  /\ lookup' = r.lookup
             /\ files' \in FilesAfter(files, name, r)
             /\ last' = [seen |-> TRUE, obj |-> o, name |-> name, exc |-> r.exc,
                         mode |-> r.mode, bytes |-> r.bytes, before |-> lookup]
             /\ IF r.exc = "none"
                THEN j' = j + 1 /\ k' = k + 1 /\ pc' = pc
                ELSE j' = j /\ k' = k /\ pc' = "crashed"
    /\ UNCHANGED <<nDocs, d, nPages, i, nObjs, budget>>

\* Line 91: the XObject loop ends.  The record of the image handled last is
\* cleared: it is read only while its image is the latest one.
PageDone ==
    /\ pc = "objs"
    /\ k = nObjs
    /\ i' = i + 1
    /\ pc' = "pages"
    /\ nObjs' = 0
    /\ k' = 0
    /\ j' = 0
    /\ last' = NoImage
    /\ UNCHANGED <<nDocs, d, nPages, lookup, files, budget>>

Next ==
    \/ CallExtractImages
    \/ MainDone
    \/ PageWithoutXObject
    \/ PageWithXObject
    \/ Return
    \/ NonImageObject
    \/ ImageObject
    \/ PageDone

Spec == Init /\ [][Next]_vars

(***************************************************************************)
(* Reading a header back, as a TIFF reader does: unsigned little-endian    *)
(* fields at byte offsets counted from 0.                                  *)
(***************************************************************************)
U16(b, off) == b[off + 1] + Byte * b[off + 2]
U32(b, off) == <<U16(b, off + 2), U16(b, off)>>

\* Offset of the first directory, and the number of its entries.
IfdOffset(b) == Small(U32(b, 4))
IfdCount(b) == U16(b, IfdOffset(b))
EntryOffset(b, e) == IfdOffset(b) + 2 + 12 * e

\* The value field of the directory entry with the given tag.
HasTag(b, tag) == \E e \in 0..(IfdCount(b) - 1) : U16(b, EntryOffset(b, e)) = tag
TagValue(b, tag) ==
    LET e == CHOOSE e \in 0..(IfdCount(b) - 1) : U16(b, EntryOffset(b, e)) = tag
    IN  U32(b, EntryOffset(b, e) + 8)

(***************************************************************************)
(* The claims.  Each is stated of the image handled last, so it is checked *)
(* of every image of every run as that image is handled.                   *)
(***************************************************************************)
FaxHeaderLength == 108

\* The pair is a number in 0 .. 2^32 - 1.
IsU32(v) == v[1] >= 0 /\ v[1] < Word

\* The pair is a number above 2^32 - 1.
AboveU32(v) == v[1] >= Word

\* The image handled last is a fax image that got as far as the header:
\* its colour space was looked up and /DecodeParms holds /K.
FaxReachedHeader ==
    /\ last.seen
    /\ last.obj.filter = "/CCITTFaxDecode"
    /\ last.mode # ""
    /\ last.obj.parms = "K"

\* The image handled last is a fax image whose file was written.
FaxWritten == FaxReachedHeader /\ last.exc = "none" /\ last.name \in files

\* C1: an error raised while an image is handled is scoped to that image:
\* the run does not end on it while image objects are left on the page,
\* pages in the PDF or PDFs in the run.
C1_ErrorScopedToImage ==
    pc = "crashed" => (k + 1 = nObjs /\ i + 1 = nPages /\ d + 1 = nDocs)

\* C2: for an image with filter /DCTDecode or /JPXDecode and a non-empty
\* payload, handling it without error writes its file, and the bytes of the
\* file are exactly the payload.
C2_PassthroughFidelity ==
    (/\ last.seen
     /\ last.obj.filter \in {"/DCTDecode", "/JPXDecode"}
     /\ last.obj.data # <<>>)
    => /\ last.exc = "none" => last.name \in files
       /\ last.name \in files => last.bytes = last.obj.data

C2_Witness ==
    /\ last.seen
    /\ last.obj.filter = "/JPXDecode"
    /\ Len(last.obj.data) > 1
    /\ last.name \in files

\* C3: the file written for an image with filter /DCTDecode has the
\* extension ".jpg".
C3_ExtensionFollowsFilter ==
    (last.seen /\ last.obj.filter = "/DCTDecode" /\ last.name \in files)
    => last.name[4] = ".jpg"

C5_StripIsPayload ==
    (FaxWritten /\ IsU32(last.obj.width) /\ IsU32(last.obj.height))
    => LET b == last.bytes
           data == last.obj.data
       IN  /\ Len(b) = FaxHeaderLength + Len(data)
           /\ TagValue(b, 273) = P(FaxHeaderLength)
           /\ TagValue(b, 279) = P(Len(data))
           /\ TagValue(b, 278) = last.obj.height
           /\ TagValue(b, 257) = last.obj.height
           /\ Len(b) = Small(TagValue(b, 273)) + Small(TagValue(b, 279))
           /\ SubSeq(b, Small(TagValue(b, 273)) + 1, Len(b)) = data

C5_Witness ==
    /\ FaxWritten
    /\ last.obj.width = P(1700)
    /\ last.obj.height = P(2200)
    /\ Len(last.obj.data) > 1

\* C6: the header is built for every width and height in 0 .. 2^32 - 1,
\* with each value unchanged in its entry, and building it fails only for a
\* value above 2^32 - 1.
C6_HeaderTakesUnsigned32 ==
    FaxReachedHeader
    => /\ (IsU32(last.obj.width) /\ IsU32(last.obj.height))
          => /\ last.exc = "none"
             /\ TagValue(last.bytes, 256) = last.obj.width
             /\ TagValue(last.bytes, 257) = last.obj.height
             /\ TagValue(last.bytes, 279) = P(Len(last.obj.data))
       /\ last.exc # "none"
          => AboveU32(last.obj.width) \/ AboveU32(last.obj.height)

\* C7: an image whose filter is none of the four, whatever its colour
\* space, gets no file, raises no error and does not end the run.
C7_UnknownFilterIsSkipped ==
    (last.seen /\ last.obj.filter = "/LZWDecode")
    => /\ last.name \notin files
       /\ last.exc = "none"
       /\ pc # "crashed"

\* C8: an /ICCBased colour space with an alternate resolves to what its
\* alternate resolves to, whatever the alternate is; the base of an /Indexed
\* colour space is resolved and is a device space; /ICCBased without an
\* alternate fails.
DeviceModes == {"RGB", "CMYK", "L"}

C8_ResolutionIsRecursive ==
    (last.seen /\ last.obj.cs.kind = "array")
    => LET cs == last.obj.cs
       IN  /\ (cs.tag = "/ICCBased" /\ cs.hasAlternate)
              => LET alt == ResolveColorSpace(cs.alternate, last.before)
                 IN  alt.exc = "none" => (last.mode = alt.mode /\ last.mode # "")
           /\ (cs.tag = "/Indexed" /\ last.mode # "")
              => ResolveColorSpace(cs.base, last.before).mode \in DeviceModes
           /\ (cs.tag = "/ICCBased" /\ ~cs.hasAlternate) => last.exc # "none"

\* C9: no file is on disk for an image whose handling raised an error.
C9_NoFileForFailedImage ==
    (last.seen /\ last.exc # "none") => last.name \notin files

\* C10: what becomes of an image (the error, or the bytes of its file) is
\* what becomes of the same image when it is the first of its run: nothing
\* carries over from the images handled before it.
C10_DecodeIsStateless ==
    last.seen
    => /\ last.exc = Decode(last.obj, Unbound).exc
       /\ last.bytes = Decode(last.obj, Unbound).bytes

====
